---------------------------- MODULE Spec2Model ----------------------------
(***************************************************************************)
(* A model of save-my-fotolog (src/runner.js and its earlier revision     *)
(* src/unnamed/part_000): the sequential promise iterator iterateLinks,   *)
(* the comment paginator (iterateCommentRequests / fetchComments), the    *)
(* listing-page planner (getMosaicPagesLinks / buildMosaicPagesLinks) and *)
(* the whole run of saveUserFotolog from the first request to the files   *)
(* on disk.                                                                *)
(*                                                                         *)
(* JavaScript indices are 0-based, TLA+ sequences are 1-based: the frame  *)
(* of the iterateLinks call with index k is frames[k + 1].                *)
(***************************************************************************)
EXTENDS Integers, Sequences, FiniteSets, TLC

VARIABLES
    links,      \* iterateLinks: the `links` argument (the input sequence)
    frames,     \* iterateLinks: one record per invocation made so far
    elements,   \* getPostComments: the .flog_img_comments elements of the page
    requests,   \* iterateCommentRequests: one record per invocation so far
    response,   \* fetchComments: the body the latest request callback parsed
    revision,   \* which revision of the planner runs
    anchors,    \* the hrefs of the anchors under #pagination, in page order
    plan,       \* what the planner call did: outcome, maxOffset, links
    parsed,     \* what a call of getUrlNumericPart did: url, outcome, value
    skip,       \* shouldSkipComments (--skipcomments)
    stage,      \* how far saveUserFotolog has got
    proc,       \* the node process: running, or ended by an uncaught exception
    ops,        \* the requests and image streams started so far, in order
    data,       \* getPostData: the record of the post page being assembled
    disk        \* the files under dirName (with those of an earlier run)

iterVars == <<links, frames>>
commentVars == <<elements, requests, response>>
plannerVars == <<revision, anchors, plan, parsed>>
runVars == <<skip, stage, proc, ops, data, disk>>

vars ==
    <<links, frames, elements, requests, response, revision, anchors, plan,
      parsed, skip, stage, proc, ops, data, disk>>

-----------------------------------------------------------------------------
(* Bounds *)

MaxLinks == 3       \* longest input sequence handed to iterateLinks
MaxResults == 2     \* longest result sequence one callback resolves with
MaxCalls == 4       \* cap on the number of (recursive) iterateLinks calls
MaxElements == 2    \* most .flog_img_comments elements on a post page
MaxBatch == 2       \* most comments in one comment-batch response
MaxBatches == 3     \* cap on the comment-batch requests issued for one post
MaxAnchors == 3     \* most anchors under #pagination
MaxOffsetArg == 100 \* largest maxOffset handed to buildMosaicPagesLinks directly

postsPerMosaicPage == 30

Items == {"a", "b"}

SeqsUpTo(S, n) == UNION {[1..m -> S] : m \in 0..n}

\* `plan` before the planner has been called
NoPlan == [state |-> "idle", branch |-> "", maxOffset |-> 0, links |-> <<>>]

\* `parsed` before getUrlNumericPart has been called
NoParse == [called |-> FALSE, url |-> <<>>, threw |-> FALSE, value |-> 0]

\* `data` while no post page is being assembled
NoData == [k |-> 0, record |-> <<>>]

\* The run of saveUserFotolog has not been started
RunIdle ==
    /\ skip = FALSE
    /\ stage = "idle"
    /\ proc = "running"
    /\ ops = <<>>
    /\ data = NoData
    /\ disk = {}

\* `response` before any request callback has run
NoResponse ==
    [k |-> 0,
     body |-> [success |-> FALSE,
               comments |-> [shape |-> "absent", items |-> <<>>, pairs |-> <<>>]]]

-----------------------------------------------------------------------------
(* iterateLinks (src/runner.js:54-72) *)

\* A variant that reads the array from its end.
ItemAtFromEnd(ls, index) ==
    IF index < Len(ls) THEN ls[Len(ls) - index] ELSE "undefined"

\* ls[index]: an out-of-range read of a JavaScript array is undefined
ItemAt(ls, index) ==
    IF index < Len(ls) THEN ls[index + 1] ELSE "undefined"

\* links[index]
LinkAt(index) == ItemAt(links, index)

\* One invocation iterateLinks(links, index, memory, callback): the executor
\* of `new Promise` runs at once, so callback(links[index]) is already
\* called (fetch pending) when the call returns its own pending promise.
FrameOf(ls, index, memory) ==
    [index   |-> index,
     memory  |-> memory,
     item    |-> ItemAt(ls, index),
     fetch   |-> "pending",     \* state of the promise callback() returned
     fetched |-> <<>>,          \* the value that promise resolved with
     promise |-> "pending",     \* state of the promise iterateLinks returned
     value   |-> <<>>]          \* the value that promise resolved with

\* An invocation on the current `links`
Frame(index, memory) == FrameOf(links, index, memory)

\* A variant that puts the new results in front of the accumulator.
ConcatPrepend(memory, results) == results \o memory

\* memory.concat(results): an array argument is spliced in element by
\* element; the model carries every callback result as the sequence of
\* elements it contributes.
Concat(memory, results) == memory \o results

\* The first call, made with index 0 and memory [] by getAllPosts,
\* getPostsData and savePostsDataToDisk.
IterateLinksCall ==
    /\ frames = <<>>
    /\ frames' = <<Frame(0, <<>>)>>
    /\ UNCHANGED <<links, commentVars, plannerVars, runVars>>

\* The results a callback resolves with: iterateLinks never inspects them,
\* so they are numbered in the order they are produced (n results exist
\* already, m new ones follow), which makes any reordering, loss or
\* duplication visible in the accumulator.
NewResults(n, m) == [i \in 1..m |-> n + i]

\* The promise returned by callback(links[index]) resolves with m results.
CallbackResolve(k, m) ==
    /\ k \in DOMAIN frames
    /\ frames[k].fetch = "pending"
    /\ frames' = [frames EXCEPT
                     ![k].fetch = "resolved",
                     ![k].fetched = NewResults(Len(frames[k].memory), m)]
    /\ UNCHANGED <<links, commentVars, plannerVars, runVars>>

\* The promise returned by callback(links[index]) rejects.
CallbackReject(k) ==
    /\ k \in DOMAIN frames
    /\ frames[k].fetch = "pending"
    /\ frames' = [frames EXCEPT ![k].fetch = "rejected"]
    /\ UNCHANGED <<links, commentVars, plannerVars, runVars>>

\* A variant that recurses without waiting for the callback's promise.
ThenResultsNoWait(k) ==
    /\ k \in DOMAIN frames
    /\ k = Len(frames)
    /\ frames[k].fetch = "pending"
    /\ frames[k].index # Len(links) - 1
    /\ Len(frames) < MaxCalls
    /\ frames' = Append(frames, Frame(frames[k].index + 1, frames[k].memory))
    /\ UNCHANGED <<links, commentVars, plannerVars, runVars>>

\* The .then handler of lines 60-70: runs once the callback's promise has
\* resolved; `index === links.length - 1` resolves this call's promise,
\* anything else makes the recursive call (which starts the next callback).
ThenFrames(k) ==
    LET f == frames[k]
        mem == Concat(f.memory, f.fetched)
    IN  IF f.index = Len(links) - 1
        THEN [frames EXCEPT ![k].fetch = "done",
                            ![k].memory = mem,
                            ![k].promise = "resolved",
                            ![k].value = mem]
        ELSE Append([frames EXCEPT ![k].fetch = "done", ![k].memory = mem],
                    Frame(f.index + 1, mem))

\* The handler as a step of iterateLinks on its own.
ThenResults(k) ==
    /\ k \in DOMAIN frames
    /\ frames[k].fetch = "resolved"
    /\ frames[k].index # Len(links) - 1 => Len(frames) < MaxCalls
    /\ frames' = ThenFrames(k)
    /\ UNCHANGED <<links, commentVars, plannerVars, runVars>>

\* The inner .then handler of lines 66-68: the recursive call's promise has
\* resolved, so this call's promise resolves with the same results.
ThenResolve(k) ==
    /\ k \in DOMAIN frames
    /\ k + 1 \in DOMAIN frames
    /\ frames[k + 1].promise = "resolved"
    /\ frames[k].promise = "pending"
    /\ frames' = [frames EXCEPT ![k].promise = "resolved",
                                ![k].value = frames[k + 1].value]
    /\ UNCHANGED <<links, commentVars, plannerVars, runVars>>

InitIterate ==
    /\ links \in SeqsUpTo(Items, MaxLinks)
    /\ frames = <<>>
    /\ elements = <<>>
    /\ requests = <<>>
    /\ response = NoResponse
    /\ revision = "runner.js"
    /\ anchors = <<>>
    /\ plan = NoPlan
    /\ parsed = NoParse
    /\ RunIdle

NextIterate ==
    \/ IterateLinksCall
    \/ \E k \in 1..MaxCalls : \E m \in 0..MaxResults : CallbackResolve(k, m)
    \/ \E k \in 1..MaxCalls : CallbackReject(k)
    \/ \E k \in 1..MaxCalls : ThenResults(k)
    \/ \E k \in 1..MaxCalls : ThenResolve(k)

SpecIterate == InitIterate /\ [][NextIterate]_vars

-----------------------------------------------------------------------------
(* Properties of iterateLinks *)

InFlight == {k \in DOMAIN frames : frames[k].fetch = "pending"}

\* C1: iterateLinks processes the items one at a time in input order: the
\* callback for item k+1 is started only after the promise of the callback
\* for item k has resolved (and been handled), every callback is given the
\* item at its own index, and at most one callback is in flight.
C1_OneAtATimeInOrder ==
    /\ Cardinality(InFlight) <= 1
    /\ \A k \in DOMAIN frames :
          /\ frames[k].index = k - 1
          /\ k <= Len(links) => frames[k].item = links[k]
          /\ k > 1 => frames[k - 1].fetch = "done"

C1_Witness ==
    /\ Len(links) >= 2
    /\ Len(frames) >= 2
    /\ frames[2].fetch = "pending"
    /\ frames[1].fetch = "done"

RECURSIVE ConcatAll(_)
ConcatAll(seqs) ==
    IF seqs = <<>> THEN <<>> ELSE Head(seqs) \o ConcatAll(Tail(seqs))

\* C2: when every callback resolves, the promise returned by the first
\* iterateLinks call resolves with the concatenation, in input order, of the
\* result sequences of the individual callbacks.
C2_ResultIsConcatenation ==
    (frames # <<>> /\ frames[1].promise = "resolved") =>
        /\ Len(frames) = Len(links)
        /\ frames[1].value = ConcatAll([k \in 1..Len(links) |-> frames[k].fetched])

C2_Witness ==
    /\ Len(links) = 3
    /\ Len(frames) = 3
    /\ frames[1].promise = "resolved"
    /\ frames[1].fetched = <<1>>
    /\ frames[2].fetched = <<2, 3>>
    /\ frames[3].fetched = <<>>
    /\ frames[1].value = <<1, 2, 3>>

\* C3: if the callback for any item fails, the promise returned by
\* iterateLinks settles as failed: once a callback has rejected and no
\* handler is left to run, that promise is rejected.
C3_FailurePropagates ==
    (/\ \E k \in DOMAIN frames :
           k <= Len(links) /\ frames[k].fetch = "rejected"
     /\ ~ENABLED NextIterate) =>
        frames[1].promise = "rejected"

\* C22: iterateLinks applied to an empty input sequence resolves with the
\* empty accumulator without invoking the callback; in general the
\* callback is invoked once per item and never with an index outside
\* 0..length-1.
C22_CallbackOncePerItemInRange ==
    /\ \A k \in DOMAIN frames :
          /\ frames[k].index \in 0..(Len(links) - 1)
          /\ \A j \in DOMAIN frames : frames[j].index = frames[k].index => j = k
    /\ (links = <<>> /\ frames # <<>>) =>
          (frames[1].promise = "resolved" /\ frames[1].value = <<>>)

-----------------------------------------------------------------------------
(* Comment pagination (src/runner.js:281-360) *)

\* The raw payload of the comment at position `id` of a post's comment
\* list, as the load_more_comments endpoint sends it; `posted` is the
\* timestamp string, carried as its whitespace-delimited tokens.
RawComment(id) ==
    [avatar           |-> <<"avatar", id>>,
     poster_user_name |-> <<"user", id>>,
     posted           |-> <<<<"on", id>>, <<"date", id>>, <<"time", id>>>>,
     message          |-> <<"message", id>>]

\* The orders in which the text of an object can list the keys "0".."m-1"
KeyOrders(m) ==
    {p \in [1..m -> 0..(m - 1)] : \A i, j \in 1..m : p[i] = p[j] => i = j}

\* The comments payload of a response to a request at `offset` holding the
\* m comments at positions offset .. offset+m-1: absent, an array, or an
\* object keyed "0".."m-1" whose members the text lists in any order.
Payloads(offset) ==
    {[shape |-> "absent", items |-> <<>>, pairs |-> <<>>]}
    \cup {[shape |-> "array",
           items |-> [i \in 1..m |-> RawComment(offset + i - 1)],
           pairs |-> <<>>] : m \in 0..MaxBatch}
    \cup UNION {{[shape |-> "map",
                  items |-> <<>>,
                  pairs |-> [i \in 1..m |-> <<p[i], RawComment(offset + p[i])>>]] :
                    p \in KeyOrders(m)} : m \in 0..MaxBatch}

\* The parsed bodies the endpoint can answer a request at `offset` with
Responses(offset) == [success : BOOLEAN, comments : Payloads(offset)]

\* The members of an object literal as JSON.parse keeps them: each key once,
\* in order of first appearance, a repeated key keeping its last value.
RECURSIVE JSONParseObject(_)
JSONParseObject(pairs) ==
    IF pairs = <<>> THEN [keys |-> <<>>, get |-> <<>>]
    ELSE LET n == Len(pairs)
             rest == JSONParseObject(SubSeq(pairs, 1, n - 1))
             key == pairs[n][1]
             val == pairs[n][2]
         IN  IF key \in DOMAIN rest.get
             THEN [keys |-> rest.keys, get |-> [rest.get EXCEPT ![key] = val]]
             ELSE [keys |-> Append(rest.keys, key),
                   get |-> [j \in DOMAIN rest.get \cup {key} |->
                               IF j = key THEN val ELSE rest.get[j]]]

RECURSIVE SortAscending(_)
SortAscending(S) ==
    IF S = {} THEN <<>>
    ELSE LET least == CHOOSE x \in S : \A y \in S : x <= y
         IN  <<least>> \o SortAscending(S \ {least})

\* A variant that lists the keys in the order they were inserted.
ObjectKeysInsertionOrder(obj) == obj.keys

\* Object.keys(obj): integer-like keys ("0", "1", ...) are enumerated in
\* ascending numeric order, whatever the order they were inserted in.
ObjectKeys(obj) == SortAscending({obj.keys[i] : i \in DOMAIN obj.keys})

\* `Object.keys(comments) === 0` (line 339) compares an array with a number
\* by strict equality: it is false for every object.
KeysStrictlyEqualZero(obj) == FALSE

\* Lines 350-357: the record built from one raw comment;
\* comment.posted.split(/\s+/)[1] is the second token (undefined if none).
MapComment(comment) ==
    [avatarImgUrl |-> comment.avatar,
     username     |-> comment.poster_user_name,
     date         |-> IF Len(comment.posted) >= 2 THEN comment.posted[2]
                      ELSE "undefined",
     message      |-> comment.message]

MapComments(comments) == [i \in DOMAIN comments |-> MapComment(comments[i])]

\* A variant that does not look at the success indicator.
FetchCommentsNoSuccessCheck(body) ==
    LET comments == body.comments
        obj == JSONParseObject(comments.pairs)
    IN  IF comments.shape = "absent" THEN <<>>
        ELSE IF comments.shape = "array" THEN MapComments(comments.items)
        ELSE MapComments([i \in DOMAIN ObjectKeys(obj) |->
                             obj.get[ObjectKeys(obj)[i]]])

\* The request callback of fetchComments (lines 335-358): the value its
\* promise resolves with for a parsed response.
FetchComments(body) ==
    LET comments == body.comments
        obj == JSONParseObject(comments.pairs)
    IN  IF \/ ~body.success
           \/ comments.shape = "absent"
           \/ (comments.shape # "array" /\ KeysStrictlyEqualZero(obj))
        THEN <<>>
        ELSE IF comments.shape = "array" THEN MapComments(comments.items)
        ELSE MapComments([i \in DOMAIN ObjectKeys(obj) |->
                             obj.get[ObjectKeys(obj)[i]]])

\* The elements matched by $('.flog_img_comments'), each carried as the
\* comment record lines 288-296 build from it.
Elements ==
    {[avatarImgUrl |-> "undefined", username |-> "", date |-> "",
      message |-> "login"],
     [avatarImgUrl |-> "cid.jpg", username |-> "cid", date |-> "05/06/2012",
      message |-> "nice"]}

\* A variant that keeps every element.
EmbeddedCommentsKeepFirst(elems) == elems

\* Lines 284-297: every element but the one at index 0.
EmbeddedComments(elems) ==
    IF elems = <<>> THEN <<>> ELSE SubSeq(elems, 2, Len(elems))

\* A variant that advances by the listing stride.
NextOffsetListingStride(offset) == offset + postsPerMosaicPage

\* The offset of the recursive call (line 317)
NextOffset(offset) == offset + 45

\* One invocation iterateCommentRequests(id, offset, memory): the request of
\* fetchComments(id, offset) is issued before the call returns.
CommentFrame(offset, memory) ==
    [offset   |-> offset,
     memory   |-> memory,
     fetch    |-> "pending",    \* state of the promise of fetchComments
     results  |-> <<>>,         \* the value that promise resolved with
     promise  |-> "pending",
     value    |-> <<>>]

\* getPostComments (lines 281-302): collects the embedded comments and
\* calls iterateCommentRequests(id, 45, comments).
GetPostComments ==
    /\ requests = <<>>
    /\ requests' = <<CommentFrame(45, EmbeddedComments(elements))>>
    /\ UNCHANGED <<iterVars, elements, response, plannerVars, runVars>>

\* The request callback of fetchComments runs with a response body and
\* resolves the promise of fetchComments.
FetchCommentsResponse(k, body) ==
    /\ k \in DOMAIN requests
    /\ requests[k].fetch = "pending"
    /\ response' = [k |-> k, body |-> body]
    /\ requests' = [requests EXCEPT ![k].fetch = "resolved",
                                    ![k].results = FetchComments(body)]
    /\ UNCHANGED <<iterVars, elements, plannerVars, runVars>>

\* The .then handler of iterateCommentRequests (lines 311-321).
ThenCommentFrames(k) ==
    LET r == requests[k]
        mem == Concat(r.memory, r.results)
    IN  IF Len(r.results) = 0
        THEN [requests EXCEPT ![k].fetch = "done",
                              ![k].memory = mem,
                              ![k].promise = "resolved",
                              ![k].value = mem]
        ELSE Append([requests EXCEPT ![k].fetch = "done", ![k].memory = mem],
                    CommentFrame(NextOffset(r.offset), mem))

\* The handler as a step of the comment pagination on its own.
ThenCommentResults(k) ==
    /\ k \in DOMAIN requests
    /\ requests[k].fetch = "resolved"
    /\ Len(requests[k].results) # 0 => Len(requests) < MaxBatches
    /\ requests' = ThenCommentFrames(k)
    /\ UNCHANGED <<iterVars, elements, response, plannerVars, runVars>>

\* The inner .then handler (lines 317-319): the recursive call's promise
\* has resolved, so this call's promise resolves with the same results.
ThenCommentResolve(k) ==
    /\ k \in DOMAIN requests
    /\ k + 1 \in DOMAIN requests
    /\ requests[k + 1].promise = "resolved"
    /\ requests[k].promise = "pending"
    /\ requests' = [requests EXCEPT ![k].promise = "resolved",
                                    ![k].value = requests[k + 1].value]
    /\ UNCHANGED <<iterVars, elements, response, plannerVars, runVars>>

InitComments ==
    /\ links = <<>>
    /\ frames = <<>>
    /\ elements \in SeqsUpTo(Elements, MaxElements)
    /\ requests = <<>>
    /\ response = NoResponse
    /\ revision = "runner.js"
    /\ anchors = <<>>
    /\ plan = NoPlan
    /\ parsed = NoParse
    /\ RunIdle

NextComments ==
    \/ GetPostComments
    \/ \E k \in DOMAIN requests :
          \E body \in Responses(requests[k].offset) :
              FetchCommentsResponse(k, body)
    \/ \E k \in 1..MaxBatches : ThenCommentResults(k)
    \/ \E k \in 1..MaxBatches : ThenCommentResolve(k)

SpecComments == InitComments /\ [][NextComments]_vars

-----------------------------------------------------------------------------
(* Properties of the comment pagination *)

Answered(k) == requests[k].fetch \in {"resolved", "done"}

\* C4: the comment-batch requests of one post are issued at offsets 45, 90,
\* 135, ... one at a time, none is issued after the first batch with zero
\* comments, and the result is the embedded comments followed by the
\* batches in offset order.
C4_PaginationStopsAtFirstEmpty ==
    /\ Cardinality({k \in DOMAIN requests : requests[k].fetch = "pending"}) <= 1
    /\ \A k \in DOMAIN requests :
          /\ requests[k].offset = 45 * k
          /\ k > 1 => (requests[k - 1].fetch = "done"
                       /\ requests[k - 1].results # <<>>)
          /\ (Answered(k) /\ requests[k].results = <<>>) => k = Len(requests)
    /\ (requests # <<>> /\ requests[1].promise = "resolved") =>
          requests[1].value =
              EmbeddedComments(elements)
              \o ConcatAll([k \in DOMAIN requests |-> requests[k].results])

C4_Witness ==
    /\ Len(requests) = 2
    /\ Len(elements) = 2
    /\ requests[1].promise = "resolved"
    /\ Len(requests[1].results) = 2
    /\ requests[2].results = <<>>
    /\ Len(requests[1].value) = 3

EmptyBatch(body) ==
    \/ ~body.success
    \/ body.comments.shape = "absent"
    \/ (body.comments.shape = "array" /\ body.comments.items = <<>>)
    \/ (body.comments.shape = "map" /\ body.comments.pairs = <<>>)

\* C5: a response whose success indicator is false, or whose payload is
\* absent, an empty array or an empty map, makes fetchComments resolve with
\* an empty sequence, and no further request is issued for the post.
C5_EmptyBatchIsTerminal ==
    (response.k \in DOMAIN requests /\ EmptyBatch(response.body)) =>
        /\ requests[response.k].results = <<>>
        /\ response.k = Len(requests)

C5_Witness ==
    /\ Len(requests) = 2
    /\ response.k = 2
    /\ requests[2].fetch = "done"
    /\ response.body.success
    /\ response.body.comments.shape = "map"
    /\ response.body.comments.pairs = <<>>
    /\ requests[1].promise = "resolved"

\* The value the text of a map payload gives to a key
ValueAt(pairs, key) ==
    LET i == CHOOSE j \in DOMAIN pairs : pairs[j][1] = key
    IN  pairs[i][2]

\* The array-shaped response equivalent to a map-shaped one with keys
\* "0".."n-1": element i is the value of key i.
EquivalentArray(body) ==
    [success  |-> body.success,
     comments |-> [shape |-> "array",
                   items |-> [i \in 1..Len(body.comments.pairs) |->
                                 ValueAt(body.comments.pairs, i - 1)],
                   pairs |-> <<>>]]

\* C6: a successful response whose payload is a map with keys "0", "1", ...
\* yields the same ordered comments as the equivalent array-shaped
\* response: the values in ascending key order, each mapped to
\* {avatarImgUrl, username, date, message}.
C6_MapNormalizesLikeArray ==
    (/\ response.k \in DOMAIN requests
     /\ response.body.success
     /\ response.body.comments.shape = "map") =>
        LET results == requests[response.k].results
            pairs == response.body.comments.pairs
        IN  /\ results = FetchComments(EquivalentArray(response.body))
            /\ Len(results) = Len(pairs)
            /\ \A i \in 1..Len(pairs) :
                  LET raw == ValueAt(pairs, i - 1)
                  IN  results[i] = [avatarImgUrl |-> raw.avatar,
                                    username     |-> raw.poster_user_name,
                                    date         |-> raw.posted[2],
                                    message      |-> raw.message]

C6_Witness ==
    /\ response.k = 1
    /\ response.body.success
    /\ response.body.comments.shape = "map"
    /\ Len(response.body.comments.pairs) = 2
    /\ response.body.comments.pairs[1][1] = 1
    /\ response.body.comments.pairs[2][1] = 0
    /\ Len(requests[1].results) = 2

\* The elements after the first, in markup order
AfterFirst(elems) == [i \in 1..(Len(elems) - 1) |-> elems[i + 1]]

\* C19: getPostComments resolves with the comment-bearing elements of the
\* page in markup order without the first one, whatever that one holds
\* (nothing when the page has none), followed by the paginated batches in
\* increasing offset order: the embedded comments are the head of the
\* accumulator of every request and of the result.
C19_EmbeddedThenPaginated ==
    LET embedded == AfterFirst(elements)
        n == Len(embedded)
    IN  /\ \A k \in DOMAIN requests :
              /\ Len(requests[k].memory) >= n
              /\ SubSeq(requests[k].memory, 1, n) = embedded
              /\ k > 1 => requests[k].offset > requests[k - 1].offset
        /\ (requests # <<>> /\ requests[1].promise = "resolved") =>
              /\ SubSeq(requests[1].value, 1, n) = embedded
              /\ SubSeq(requests[1].value, n + 1, Len(requests[1].value)) =
                    ConcatAll([k \in DOMAIN requests |-> requests[k].results])

C19_Witness ==
    /\ Len(elements) = 2
    /\ elements[1] = elements[2]
    /\ elements[1].username = "cid"
    /\ Len(requests) = 3
    /\ requests[1].promise = "resolved"
    /\ Len(requests[1].value) = 3
    /\ requests[1].value[1] = elements[2]
    /\ requests[1].value[2] = MapComment(RawComment(45))
    /\ requests[1].value[3] = MapComment(RawComment(90))

-----------------------------------------------------------------------------
(* Listing-page planner (src/runner.js:132-184, src/unnamed/part_000:112-159) *)

\* A URL is the sequence of its path segments after the scheme; a segment
\* is either all digits (with its value) or some other text.
Seg(text) == [digits |-> FALSE, text |-> text, value |-> 0]
Num(n) == [digits |-> TRUE, text |-> "", value |-> n]

username == Seg("ann")

\* `http://www.fotolog.com/${username}/mosaic`
mosaicLink == <<Seg("www.fotolog.com"), username, Seg("mosaic")>>

\* `${mosaicLink}/${offset}`
OffsetLink(offset) == Append(mosaicLink, Num(offset))

\* .attr('href') of an empty selection
Undefined == <<>>

\* The hrefs a pagination anchor can carry: listing links at several
\* offsets, a link with no numeric segment, and a link of a user with an
\* all-digit name.
Hrefs ==
    {OffsetLink(30), OffsetLink(60), OffsetLink(45), OffsetLink(90),
     mosaicLink,
     <<Seg("www.fotolog.com"), Num(7), Seg("mosaic"), Num(60)>>}

Revisions == {"runner.js", "part_000"}

\* The first all-digit segment of url, if any: the first match of
\* /\/(\d+)(?:\/|$)/
RECURSIVE FirstNumericSegment(_)
FirstNumericSegment(url) ==
    IF url = <<>> THEN [found |-> FALSE, value |-> 0]
    ELSE IF Head(url).digits THEN [found |-> TRUE, value |-> Head(url).value]
    ELSE FirstNumericSegment(Tail(url))

\* getUrlNumericPart(url): parseInt of the first match; with no match (or
\* an undefined url) the expression throws a TypeError.
getUrlNumericPart(url) ==
    LET m == FirstNumericSegment(url)
    IN  IF m.found THEN [threw |-> FALSE, value |-> m.value]
        ELSE [threw |-> TRUE, value |-> 0]

\* A variant of the loop test that includes the bound.
LoopContinuesInclusive(i, maxOffset) ==
    i * postsPerMosaicPage <= maxOffset + postsPerMosaicPage

\* `i < pagesQty` with pagesQty = (maxOffset / postsPerMosaicPage) + 1, a
\* fraction when maxOffset is no multiple of the page size: the test is
\* that of the products, i * 30 < maxOffset + 30.
LoopContinues(i, maxOffset) ==
    i * postsPerMosaicPage < maxOffset + postsPerMosaicPage

\* The for loop of buildMosaicPagesLinks from counter i on
RECURSIVE BuildLoop(_, _, _)
BuildLoop(i, maxOffset, built) ==
    IF LoopContinues(i, maxOffset)
    THEN LET offset == i * postsPerMosaicPage
         IN  BuildLoop(i + 1, maxOffset,
                       Append(built, IF offset = 0 THEN mosaicLink
                                     ELSE OffsetLink(offset)))
    ELSE built

buildMosaicPagesLinks(maxOffset) == BuildLoop(0, maxOffset, <<>>)

\* $pagination.find('a:last-of-type').attr('href')
LastLink(as) == IF as = <<>> THEN Undefined ELSE as[Len(as)]

\* $pagination.find('a:nth-last-of-type(2)').attr('href')
SecondToLastLink(as) == IF Len(as) < 2 THEN Undefined ELSE as[Len(as) - 1]

\* What a planner call leaves behind, given the branch it took and the
\* result of reading maxOffset.
PlanOf(branch, read) ==
    IF read.threw
    THEN [state |-> "threw", branch |-> branch, maxOffset |-> 0, links |-> <<>>]
    ELSE [state |-> "returned", branch |-> branch, maxOffset |-> read.value,
          links |-> buildMosaicPagesLinks(read.value)]

Zero == [threw |-> FALSE, value |-> 0]

\* A variant that reads the last anchor in the truncated-widget case too.
getMosaicPagesLinksLastOnly(as) ==
    IF Len(as) = 0 THEN PlanOf("no pagination", Zero)
    ELSE IF Len(as) = 1 THEN PlanOf("one page", Zero)
    ELSE IF LastLink(as) = OffsetLink(30)
    THEN PlanOf("up to 6 pages", getUrlNumericPart(LastLink(as)))
    ELSE PlanOf("more than 6 pages", getUrlNumericPart(LastLink(as)))

\* getMosaicPagesLinks of src/runner.js (lines 132-162)
getMosaicPagesLinks(as) ==
    IF Len(as) = 0 THEN PlanOf("no pagination", Zero)
    ELSE IF Len(as) = 1 THEN PlanOf("one page", Zero)
    ELSE IF LastLink(as) = OffsetLink(30)
    THEN PlanOf("up to 6 pages", getUrlNumericPart(SecondToLastLink(as)))
    ELSE PlanOf("more than 6 pages", getUrlNumericPart(LastLink(as)))

\* getMosaicPagesLinks of src/unnamed/part_000 (lines 112-137), which has
\* no branch for a page without anchors
getMosaicPagesLinksPart000(as) ==
    IF Len(as) = 1 THEN PlanOf("one page", Zero)
    ELSE IF LastLink(as) = OffsetLink(30)
    THEN PlanOf("up to 6 pages", getUrlNumericPart(SecondToLastLink(as)))
    ELSE PlanOf("more than 6 pages", getUrlNumericPart(LastLink(as)))

\* The request callback of saveUserFotolog calls the planner on the page.
GetMosaicPagesLinksCall ==
    /\ plan.state = "idle"
    /\ ~parsed.called
    /\ plan' = IF revision = "runner.js" THEN getMosaicPagesLinks(anchors)
               ELSE getMosaicPagesLinksPart000(anchors)
    /\ UNCHANGED <<iterVars, commentVars, revision, anchors, parsed, runVars>>

\* buildMosaicPagesLinks applied to a given maxOffset
BuildMosaicPagesLinksCall(maxOffset) ==
    /\ plan.state = "idle"
    /\ ~parsed.called
    /\ plan' = [state |-> "built", branch |-> "", maxOffset |-> maxOffset,
                links |-> buildMosaicPagesLinks(maxOffset)]
    /\ UNCHANGED <<iterVars, commentVars, revision, anchors, parsed, runVars>>

\* The URLs getUrlNumericPart is applied to: the pagination hrefs, post
\* links, and the post link of a user whose name is all digits.
Urls ==
    Hrefs \cup
    {<<Seg("www.fotolog.com"), username, Num(456)>>,
     <<Seg("www.fotolog.com"), username, Seg("about")>>,
     <<Seg("www.fotolog.com"), Num(123), Num(456)>>,
     Undefined}

\* getUrlNumericPart applied to a given url
GetUrlNumericPartCall(url) ==
    /\ ~parsed.called
    /\ plan.state = "idle"
    /\ parsed' = [called |-> TRUE, url |-> url,
                  threw |-> getUrlNumericPart(url).threw,
                  value |-> getUrlNumericPart(url).value]
    /\ UNCHANGED <<iterVars, commentVars, revision, anchors, plan, runVars>>

InitPlanner ==
    /\ links = <<>>
    /\ frames = <<>>
    /\ elements = <<>>
    /\ requests = <<>>
    /\ response = NoResponse
    /\ revision \in Revisions
    /\ anchors \in SeqsUpTo(Hrefs, MaxAnchors)
    /\ plan = NoPlan
    /\ parsed = NoParse
    /\ RunIdle

NextPlanner ==
    \/ GetMosaicPagesLinksCall
    \/ \E maxOffset \in 0..MaxOffsetArg : BuildMosaicPagesLinksCall(maxOffset)
    \/ \E url \in Urls : GetUrlNumericPartCall(url)

SpecPlanner == InitPlanner /\ [][NextPlanner]_vars

-----------------------------------------------------------------------------
(* Properties of the planner *)

Planned == plan.state \in {"returned", "threw"}

\* C7: for a pagination marker with no anchor or exactly one anchor,
\* whatever its href, getMosaicPagesLinks returns exactly one link, the bare
\* mosaic URL, and does not fail, in both revisions.
C7_ZeroOrOneAnchorGivesOnePage ==
    (Planned /\ Len(anchors) <= 1) =>
        /\ plan.state = "returned"
        /\ plan.links = <<mosaicLink>>

\* C8: with two or more anchors maxOffset is read from the second-to-last
\* anchor when the last anchor's href is the offset-30 link and from the
\* last anchor otherwise; the cases are tried in the order no anchors, one
\* anchor, truncated widget, otherwise.
C8_MaxOffsetSource ==
    (Planned /\ revision = "runner.js") =>
        LET n == Len(anchors)
            source == IF anchors[n] = OffsetLink(30) THEN anchors[n - 1]
                      ELSE anchors[n]
            read == FirstNumericSegment(source)
        IN  /\ n = 0 => plan.branch = "no pagination"
            /\ n = 1 => plan.branch = "one page"
            /\ n >= 2 =>
                  /\ plan.branch = IF anchors[n] = OffsetLink(30)
                                   THEN "up to 6 pages" ELSE "more than 6 pages"
                  /\ read.found => (plan.state = "returned"
                                    /\ plan.maxOffset = read.value)
                  /\ ~read.found => plan.state = "threw"

C8_Witness ==
    /\ Planned
    /\ revision = "runner.js"
    /\ anchors = <<OffsetLink(60), OffsetLink(90), OffsetLink(30)>>
    /\ plan.maxOffset = 90
    /\ Len(plan.links) = 4

HasLinks == plan.state \in {"returned", "built"}

\* The offset a listing link stands for
OffsetOf(link) == IF link = mosaicLink THEN 0 ELSE link[Len(link)].value

\* C9: when maxOffset is not a multiple of 30, buildMosaicPagesLinks returns
\* exactly floor(maxOffset/30)+1 links, none with an offset above maxOffset.
C9_PageCountFloored ==
    (HasLinks /\ plan.maxOffset % 30 # 0) =>
        /\ Len(plan.links) = (plan.maxOffset \div 30) + 1
        /\ \A i \in DOMAIN plan.links : OffsetOf(plan.links[i]) <= plan.maxOffset

\* C10: for a maxOffset that is a multiple of 30, buildMosaicPagesLinks
\* returns maxOffset/30 + 1 links at offsets 0, 30, ..., maxOffset in
\* increasing order, the first the bare listing URL and every other one the
\* listing URL with /<offset> appended.
C10_LinksForMultiplesOf30 ==
    (HasLinks /\ plan.maxOffset % 30 = 0) =>
        /\ Len(plan.links) = (plan.maxOffset \div 30) + 1
        /\ \A i \in DOMAIN plan.links :
              plan.links[i] = IF i = 1 THEN mosaicLink
                              ELSE mosaicLink \o <<Num(30 * (i - 1))>>

C10_Witness ==
    /\ plan.state = "built"
    /\ plan.maxOffset = 90
    /\ plan.links = <<mosaicLink, OffsetLink(30), OffsetLink(60), OffsetLink(90)>>

\* Whether some segment of url is all digits
HasNumericSegment(url) == \E i \in DOMAIN url : url[i].digits

\* C18: getUrlNumericPart returns the trailing numeric path segment: for a
\* URL whose last segment is all digits the result is that segment's value,
\* also when an earlier segment is all digits too, and for a URL with no
\* numeric segment the call fails.
C18_TrailingNumericSegment ==
    parsed.called =>
        /\ (parsed.url # <<>> /\ parsed.url[Len(parsed.url)].digits) =>
              (~parsed.threw /\ parsed.value = parsed.url[Len(parsed.url)].value)
        /\ ~HasNumericSegment(parsed.url) => parsed.threw

-----------------------------------------------------------------------------
(* The run of saveUserFotolog (src/runner.js:109-122, 194-274, 366-417;   *)
(* src/unnamed/part_000:92-102, 172-233, 336-366)                          *)

MaxPages == 2        \* most listing pages of the user
MaxPosts == 2        \* most posts of the user, over all listing pages
MaxFullBatches == 1  \* most non-empty comment batches of one post

\* An operation as `ops` records it when it starts: a request, an image
\* stream or the reset of the output directory, started by invocation k of
\* the iteration it belongs to; `answer` says what came back.
Op(kind, target, k) ==
    [kind |-> kind, target |-> target, k |-> k, answer |-> "pending"]

\* The position in `ops` of the pending operation of that kind and invocation
Pending(kind, k) ==
    {p \in DOMAIN ops :
        ops[p].kind = kind /\ ops[p].k = k /\ ops[p].answer = "pending"}

\* `ops` once the operation at position p has come back
Answer(p, answer) == [ops EXCEPT ![p].answer = answer]

\* What a response can be: a 2xx page, or the error page of a non-2xx
\* status (no callback looks at `error` or at the status).
Answers == {"ok", "non-2xx"}

\* The href of the n-th post of the user
PostLink(n) == <<Seg("www.fotolog.com"), username, Num(n)>>

\* The anchors under #pagination of a user with p listing pages
RunAnchors(p) ==
    IF p = 1 THEN <<>>
    ELSE <<OffsetLink(postsPerMosaicPage * (p - 1)),
           OffsetLink(postsPerMosaicPage)>>

\* The pagination markers of the first page: p pages, or anchors without a
\* numeric segment
RunMarkers ==
    {RunAnchors(p) : p \in 1..MaxPages} \cup {<<mosaicLink, mosaicLink>>}

\* A file under dirName
File(run, id, ext, complete) ==
    [run |-> run, id |-> id, ext |-> ext, complete |-> complete]

\* What an earlier run left in the output directory
OldFile == File("old", 0, "txt", TRUE)

\* A variant that leaves the directory's contents in place.
RimrafKeep(files) == files

\* rimraf.sync(dirName) followed by fs.mkdirSync(dirName)
Rimraf(files) == {}

\* The post pages: the expected markup, a description without the views
\* caption, and the error page of a non-2xx response.
PostPages ==
    {[answer |-> "ok", imageUrl |-> "src", description |-> "caption",
      elems |-> <<[avatarImgUrl |-> "undefined", username |-> "", date |-> "",
                   message |-> "login"],
                  [avatarImgUrl |-> "cid.jpg", username |-> "cid",
                   date |-> "05/06/2012", message |-> "nice"]>>],
     [answer |-> "no caption", imageUrl |-> "src", description |-> "text",
      elems |-> <<>>],
     [answer |-> "non-2xx", imageUrl |-> "undefined", description |-> "",
      elems |-> <<>>]}

\* The bodies the comments endpoint answers request number k at `offset`
\* with: no comments, or (for the first MaxFullBatches requests) one
RunResponses(offset, k) ==
    {[success |-> TRUE,
      comments |-> [shape |-> "array", items |-> <<>>, pairs |-> <<>>]]}
    \cup (IF k <= MaxFullBatches
          THEN {[success |-> TRUE,
                 comments |-> [shape |-> "array",
                               items |-> <<RawComment(offset)>>,
                               pairs |-> <<>>]]}
          ELSE {})

\* What calling a stage's callback does before it returns: the state of
\* the promise it returns, the operations it started, the files it wrote.
Called(fetch, started, written) ==
    [fetch |-> fetch, started |-> started, written |-> written]

\* getPostsFromMosaicLink(link) (runner.js:206-221): issues the request
GetPostsFromMosaicLink(defined, link, k) ==
    Called("pending", <<Op("listing", link, k)>>, {})

\* getPostData(link) (runner.js:243-245): request(undefined, ...) throws
\* inside the executor, which rejects the promise
GetPostData(defined, link, k) ==
    IF defined THEN Called("pending", <<Op("post", link, k)>>, {})
    ELSE Called("rejected", <<>>, {})

\* The executor of savePostDataToDisk; `opened` is the state of its promise
\* once the image stream is open.  A TypeError inside the executor (reading
\* a field of undefined, request(undefined)) rejects the promise.  In
\* runner.js the last line reads postData.comments.length, which throws
\* for a record without comments, after the text was written and the image
\* stream opened; part_000 has no such line and writes the comments to a
\* file of their own.
Persist(rev, sk, defined, postData, k, opened) ==
    IF ~defined THEN Called("rejected", <<>>, {})
    ELSE LET text ==
                 {File("new", postData.id, "txt", TRUE)}
                 \cup (IF rev = "part_000" /\ ~sk
                       THEN {File("new", postData.id, "comments.txt", TRUE)}
                       ELSE {})
             image == {File("new", postData.id, "jpg", FALSE)}
         IN  IF postData.imageUrl = "undefined"
             THEN Called("rejected", <<>>, text)
             ELSE IF rev = "runner.js" /\ sk
             THEN Called("rejected", <<Op("image", postData.id, k)>>,
                         text \cup image)
             ELSE Called(opened, <<Op("image", postData.id, k)>>,
                         text \cup image)

\* A variant that resolves as soon as the image stream is open.
SavePostDataToDiskResolveEarly(rev, sk, defined, postData, k) ==
    Persist(rev, sk, defined, postData, k, "resolved")

\* savePostDataToDisk(postData) (runner.js:382-417, part_000:352-366): the
\* promise is resolved by the `close` event of the write stream only
SavePostDataToDisk(rev, sk, defined, postData, k) ==
    Persist(rev, sk, defined, postData, k, "pending")

\* callback(links[index]) of the iteration of stage st, as invocation k
Callback(st, ls, index, k) ==
    LET defined == index < Len(ls)
        item == ItemAt(ls, index)
    IN  IF st = "listing" THEN GetPostsFromMosaicLink(defined, item, k)
        ELSE IF st = "posts" THEN GetPostData(defined, item, k)
        ELSE SavePostDataToDisk(revision, skip, defined, item, k)

\* What becomes of the process when a promise is rejected with no handler
\* attached: node either ignores it (at most a warning) and lives on, or
\* ends the process with the error, depending on its release.
AfterCall(c) ==
    IF c.fetch = "rejected" /\ proc = "running"
    THEN {"unhandled", "crashed"}
    ELSE {proc}

Alive == proc # "crashed"

\* A variant that resolves the post's promise without waiting for comments.
ResolvesAtOnceAlways(sk) == TRUE

\* `if (shouldSkipComments) { resolve(data); return; }` (runner.js:258-263)
ResolvesAtOnce(sk) == sk

\* saveUserFotolog (runner.js:109-112): the request of the first listing page
SaveUserFotolog ==
    /\ stage = "idle"
    /\ stage' = "mosaic"
    /\ ops' = <<Op("mosaic", mosaicLink, 0)>>
    /\ UNCHANGED <<links, frames, commentVars, plannerVars, skip, proc, data,
                   disk>>

\* The request callback of saveUserFotolog (runner.js:112-120): plans the
\* listing pages and calls getAllPosts, which starts the first iteration.
\* An error page has no #pagination element.  An exception thrown by the
\* planner is uncaught and ends the process.
MosaicResponse(answer) ==
    /\ stage = "mosaic"
    /\ Alive
    /\ Pending("mosaic", 0) # {}
    /\ LET page == IF answer = "ok" THEN anchors ELSE <<>>
           planned == IF revision = "runner.js" THEN getMosaicPagesLinks(page)
                      ELSE getMosaicPagesLinksPart000(page)
           c == Callback("listing", planned.links, 0, 1)
       IN  /\ anchors' = page
           /\ plan' = planned
           /\ IF planned.state = "threw"
              THEN /\ proc' = "crashed"
                   /\ ops' = Answer(1, answer)
                   /\ UNCHANGED <<links, frames, stage>>
              ELSE /\ stage' = "listing"
                   /\ links' = planned.links
                   /\ frames' = <<[FrameOf(planned.links, 0, <<>>)
                                      EXCEPT !.fetch = c.fetch]>>
                   /\ ops' = Answer(1, answer) \o c.started
                   /\ proc' \in AfterCall(c)
    /\ UNCHANGED <<commentVars, revision, parsed, skip, data, disk>>

\* The request callback of getPostsFromMosaicLink (runner.js:208-219):
\* resolves with the hrefs under #list_photos_mosaic, which an error page
\* does not have; neither `error` nor the status is looked at.
ListingResponse(k, answer, m) ==
    /\ stage = "listing"
    /\ Alive
    /\ k \in DOMAIN frames
    /\ frames[k].fetch = "pending"
    /\ Pending("listing", k) # {}
    /\ answer = "non-2xx" => m = 0
    /\ Len(frames[k].memory) + m <= MaxPosts
    /\ LET p == CHOOSE q \in Pending("listing", k) : TRUE
           n == Len(frames[k].memory)
       IN  /\ ops' = Answer(p, answer)
           /\ frames' = [frames EXCEPT
                            ![k].fetch = "resolved",
                            ![k].fetched = [i \in 1..m |-> PostLink(n + i)]]
    /\ UNCHANGED <<links, commentVars, plannerVars, skip, stage, proc, data,
                   disk>>

\* The .then handler of iterateLinks (runner.js:60-70) inside a run: the
\* recursive call invokes the stage's callback on the next item.
IterateThen(k) ==
    /\ stage \in {"listing", "posts", "saving"}
    /\ Alive
    /\ k \in DOMAIN frames
    /\ frames[k].fetch = "resolved"
    /\ IF frames[k].index = Len(links) - 1
       THEN /\ frames' = ThenFrames(k)
            /\ UNCHANGED <<ops, disk, proc>>
       ELSE LET new == ThenFrames(k)
                c == Callback(stage, links, frames[k].index + 1, Len(new))
            IN  /\ frames' = [new EXCEPT ![Len(new)].fetch = c.fetch]
                /\ ops' = ops \o c.started
                /\ disk' = disk \cup c.written
                /\ proc' \in AfterCall(c)
    /\ UNCHANGED <<links, commentVars, plannerVars, skip, stage, data>>

\* The inner .then handler of iterateLinks (runner.js:66-68)
IterateResolve(k) ==
    /\ stage \in {"listing", "posts", "saving"}
    /\ Alive
    /\ k \in DOMAIN frames
    /\ k + 1 \in DOMAIN frames
    /\ frames[k + 1].promise = "resolved"
    /\ frames[k].promise = "pending"
    /\ frames' = [frames EXCEPT ![k].promise = "resolved",
                                ![k].value = frames[k + 1].value]
    /\ UNCHANGED <<links, commentVars, plannerVars, runVars>>

\* getAllPosts has resolved: getPostsData(postsLinks) (runner.js:231-237)
\* starts the iteration over the post links.
GetPostsData ==
    /\ stage = "listing"
    /\ Alive
    /\ frames # <<>>
    /\ frames[1].promise = "resolved"
    /\ LET postsLinks == frames[1].value
           c == Callback("posts", postsLinks, 0, 1)
       IN  /\ stage' = "posts"
           /\ links' = postsLinks
           /\ frames' = <<[FrameOf(postsLinks, 0, <<>>) EXCEPT !.fetch = c.fetch]>>
           /\ ops' = ops \o c.started
           /\ proc' \in AfterCall(c)
    /\ UNCHANGED <<commentVars, plannerVars, skip, data, disk>>

\* The record getPostData builds from a post page (runner.js:249-256,
\* part_000:216-220); part_000 extracts no date.
PostRecord(id, page) ==
    [id |-> id, imageUrl |-> page.imageUrl, description |-> page.description,
     date |-> IF revision = "runner.js" THEN "date" ELSE "undefined",
     hasComments |-> FALSE, comments |-> <<>>]

\* The request callback of getPostData (runner.js:245-272).  In runner.js
\* `data.description.match(dateRegex)[0]` throws when the description has
\* no views caption; the exception is uncaught and ends the process.
PostResponse(k, page) ==
    /\ stage = "posts"
    /\ Alive
    /\ k \in DOMAIN frames
    /\ frames[k].fetch = "pending"
    /\ Pending("post", k) # {}
    /\ data = NoData
    /\ LET p == CHOOSE q \in Pending("post", k) : TRUE
           read == getUrlNumericPart(frames[k].item)
           record == PostRecord(read.value, page)
           answered == Answer(p, page.answer)
       IN  IF read.threw \/ (revision = "runner.js" /\ page.description # "caption")
           THEN /\ proc' = "crashed"
                /\ ops' = answered
                /\ UNCHANGED <<frames, elements, requests, data>>
           ELSE /\ frames' = [frames EXCEPT
                                 ![k].fetch = IF ResolvesAtOnce(skip)
                                              THEN "resolved" ELSE "pending",
                                 ![k].fetched = IF ResolvesAtOnce(skip)
                                                THEN <<record>> ELSE <<>>]
                /\ IF skip
                   THEN /\ ops' = answered
                        /\ UNCHANGED <<elements, requests, data>>
                   ELSE /\ elements' = page.elems
                        /\ requests' =
                              <<CommentFrame(45, EmbeddedComments(page.elems))>>
                        /\ data' = [k |-> k, record |-> record]
                        /\ ops' = Append(answered,
                                         Op("comments", <<read.value, 45>>, 1))
                /\ UNCHANGED proc
    /\ UNCHANGED <<links, response, plannerVars, skip, stage, disk>>

\* The request callback of fetchComments (runner.js:335-358) inside a run;
\* JSON.parse of an error page throws, uncaught.
CommentResponse(k, answer, body) ==
    /\ stage = "posts"
    /\ Alive
    /\ k \in DOMAIN requests
    /\ requests[k].fetch = "pending"
    /\ Pending("comments", k) # {}
    /\ LET p == CHOOSE q \in Pending("comments", k) : TRUE
       IN  /\ ops' = Answer(p, answer)
           /\ IF answer = "ok"
              THEN /\ response' = [k |-> k, body |-> body]
                   /\ requests' = [requests EXCEPT
                                      ![k].fetch = "resolved",
                                      ![k].results = FetchComments(body)]
                   /\ UNCHANGED proc
              ELSE /\ proc' = "crashed"
                   /\ UNCHANGED <<requests, response>>
    /\ UNCHANGED <<iterVars, elements, plannerVars, skip, stage, data, disk>>

\* The .then handler of iterateCommentRequests (runner.js:311-321) inside a
\* run: the recursive call issues the next request.
CommentThen(k) ==
    /\ stage = "posts"
    /\ Alive
    /\ k \in DOMAIN requests
    /\ requests[k].fetch = "resolved"
    /\ requests' = ThenCommentFrames(k)
    /\ ops' = IF Len(requests[k].results) = 0 THEN ops
              ELSE Append(ops, Op("comments",
                                  <<data.record.id, NextOffset(requests[k].offset)>>,
                                  k + 1))
    /\ UNCHANGED <<iterVars, elements, response, plannerVars, skip, stage,
                   proc, data, disk>>

\* The inner .then handler of iterateCommentRequests (runner.js:317-319)
CommentResolve(k) ==
    /\ stage = "posts"
    /\ Alive
    /\ k \in DOMAIN requests
    /\ k + 1 \in DOMAIN requests
    /\ requests[k + 1].promise = "resolved"
    /\ requests[k].promise = "pending"
    /\ requests' = [requests EXCEPT ![k].promise = "resolved",
                                    ![k].value = requests[k + 1].value]
    /\ UNCHANGED <<iterVars, elements, response, plannerVars, runVars>>

\* The .then handler of getPostData (runner.js:265-271): the comments are
\* attached to the record and the post's promise resolves with it.
CommentsDone ==
    /\ stage = "posts"
    /\ Alive
    /\ data # NoData
    /\ requests # <<>>
    /\ requests[1].promise = "resolved"
    /\ frames' = [frames EXCEPT
                     ![data.k].fetch = "resolved",
                     ![data.k].fetched =
                         <<[data.record EXCEPT !.hasComments = TRUE,
                                               !.comments = requests[1].value]>>]
    /\ data' = NoData
    /\ elements' = <<>>
    /\ requests' = <<>>
    /\ response' = NoResponse
    /\ UNCHANGED <<links, plannerVars, skip, stage, proc, ops, disk>>

\* A variant that does not wait for getPostsData to resolve.
SavePostsDataToDiskEarly ==
    /\ stage = "posts"
    /\ Alive
    /\ frames # <<>>
    /\ LET postsData == frames[1].value
           c == Callback("saving", postsData, 0, 1)
       IN  /\ stage' = "saving"
           /\ links' = postsData
           /\ frames' = <<[FrameOf(postsData, 0, <<>>) EXCEPT !.fetch = c.fetch]>>
           /\ ops' = Append(ops, [Op("reset", disk, 0) EXCEPT !.answer = "ok"])
                     \o c.started
           /\ disk' = Rimraf(disk) \cup c.written
           /\ proc' \in AfterCall(c)
    /\ UNCHANGED <<commentVars, plannerVars, skip, data>>

\* getPostsData has resolved: savePostsDataToDisk(postsData)
\* (runner.js:366-380) resets the output directory and starts the iteration
\* over the records.
SavePostsDataToDisk ==
    /\ stage = "posts"
    /\ Alive
    /\ frames # <<>>
    /\ frames[1].promise = "resolved"
    /\ LET postsData == frames[1].value
           c == Callback("saving", postsData, 0, 1)
       IN  /\ stage' = "saving"
           /\ links' = postsData
           /\ frames' = <<[FrameOf(postsData, 0, <<>>) EXCEPT !.fetch = c.fetch]>>
           /\ ops' = Append(ops, [Op("reset", disk, 0) EXCEPT !.answer = "ok"])
                     \o c.started
           /\ disk' = Rimraf(disk) \cup c.written
           /\ proc' \in AfterCall(c)
    /\ UNCHANGED <<commentVars, plannerVars, skip, data>>

\* The `close` event of the image's write stream (runner.js:411): the file
\* is complete (an error page is stored like an image) and resolve() is
\* called, which has no effect on a promise already rejected.
ImageClose(k, answer) ==
    /\ stage \in {"saving", "done"}
    /\ Alive
    /\ k \in DOMAIN frames
    /\ Pending("image", k) # {}
    /\ LET p == CHOOSE q \in Pending("image", k) : TRUE
           id == ops[p].target
       IN  /\ ops' = Answer(p, answer)
           /\ disk' = (disk \ {File("new", id, "jpg", FALSE)})
                      \cup {File("new", id, "jpg", TRUE)}
    /\ frames' = IF frames[k].fetch = "pending"
                 THEN [frames EXCEPT ![k].fetch = "resolved",
                                     ![k].fetched = <<"undefined">>]
                 ELSE frames
    /\ UNCHANGED <<links, commentVars, plannerVars, skip, stage, proc, data>>

\* savePostsDataToDisk has resolved: the last handler of the chain
\* (runner.js:118-120) reports the end of the run; part_000 has no such
\* handler and ends silently.
Done ==
    /\ stage = "saving"
    /\ Alive
    /\ frames # <<>>
    /\ frames[1].promise = "resolved"
    /\ stage' = "done"
    /\ UNCHANGED <<iterVars, commentVars, plannerVars, skip, proc, ops, data,
                   disk>>

InitRun ==
    /\ links = <<>>
    /\ frames = <<>>
    /\ elements = <<>>
    /\ requests = <<>>
    /\ response = NoResponse
    /\ revision \in Revisions
    /\ anchors \in RunMarkers
    /\ plan = NoPlan
    /\ parsed = NoParse
    /\ skip \in BOOLEAN
    /\ stage = "idle"
    /\ proc = "running"
    /\ ops = <<>>
    /\ data = NoData
    /\ disk \in {{}, {OldFile}}

NextRun ==
    \/ SaveUserFotolog
    \/ \E answer \in Answers : MosaicResponse(answer)
    \/ \E k \in DOMAIN frames, answer \in Answers, m \in 0..MaxPosts :
          ListingResponse(k, answer, m)
    \/ \E k \in DOMAIN frames : IterateThen(k)
    \/ \E k \in DOMAIN frames : IterateResolve(k)
    \/ GetPostsData
    \/ \E k \in DOMAIN frames, page \in PostPages : PostResponse(k, page)
    \/ \E k \in DOMAIN requests, answer \in Answers :
          \E body \in RunResponses(requests[k].offset, k) :
              CommentResponse(k, answer, body)
    \/ \E k \in DOMAIN requests : CommentThen(k)
    \/ \E k \in DOMAIN requests : CommentResolve(k)
    \/ CommentsDone
    \/ SavePostsDataToDisk
    \/ \E k \in DOMAIN frames, answer \in Answers : ImageClose(k, answer)
    \/ Done

SpecRun == InitRun /\ [][NextRun]_vars

\* The run under node's event loop, which runs a callback that is due:
\* a response, a stream's close event or a promise handler does not wait
\* for ever.
SpecRunFair == InitRun /\ [][NextRun]_vars /\ WF_vars(NextRun)


-----------------------------------------------------------------------------
(* Properties of the run *)

\* The operations of one kind, in the order they were started
OpsOf(kind) == SelectSeq(ops, LAMBDA o : o.kind = kind)

\* The positions of the operations still in flight
InFlightOps == {p \in DOMAIN ops : ops[p].answer = "pending"}

\* C11: when a post page's description lacks the views caption, only the
\* date extraction fails: the post still yields a record with its id,
\* imageUrl and description (being completed with comments, or delivered to
\* the iteration), and neither the post nor the iteration is aborted.
C11_MissingCaptionFailsOnlyTheDate ==
    \A p \in DOMAIN ops :
        (stage = "posts" /\ ops[p].kind = "post" /\ ops[p].answer = "no caption") =>
            LET k == ops[p].k
                delivered == IF data.k = k THEN <<data.record>>
                             ELSE frames[k].fetched
            IN  /\ Len(delivered) = 1
                /\ delivered[1].id = ops[p].target[3].value
                /\ delivered[1].imageUrl = "src"
                /\ delivered[1].description = "text"

\* C12: with --skipcomments the persister handles every record: the promise
\* of savePostDataToDisk for a record with an image is never rejected, so
\* the iteration goes on to the next record and to the end of the run.
C12_SkipCommentsPersistsEveryRecord ==
    (skip /\ stage = "saving") =>
        \A k \in DOMAIN frames :
            (k <= Len(links) /\ links[k].imageUrl = "src") =>
                frames[k].fetch # "rejected"

\* C13: a non-2xx response to any request is fatal: the process ends with
\* the error at once, so no operation is started after the failed one and
\* the end of the run is never reached.
C13_TransportFailureIsFatal ==
    \A p \in DOMAIN ops :
        ops[p].answer = "non-2xx" =>
            /\ proc = "crashed"
            /\ p = Len(ops)
            /\ stage # "done"

\* Every record handed to the persister has its text and its complete
\* image on disk and the chain has run to its end.
Completed ==
    /\ stage = "done"
    /\ \A i \in DOMAIN links :
          /\ File("new", links[i].id, "txt", TRUE) \in disk
          /\ File("new", links[i].id, "jpg", TRUE) \in disk

\* C14: there is no partial success: a state in which the run can take no
\* further step is either one where the whole pipeline completed and every
\* record is persisted, or one where the process ended with the error
\* surfaced.
C14_NoPartialSuccess ==
    (stage # "idle" /\ ~ENABLED NextRun) => (Completed \/ proc = "crashed")

\* C15: the output directory is reset exactly once per run, before the
\* first artifact of a record is written, and from the reset on it holds
\* only files of the current run.
C15_ResetOnceBeforeFirstArtifact ==
    LET resets == {p \in DOMAIN ops : ops[p].kind = "reset"}
    IN  /\ Cardinality(resets) = IF stage \in {"saving", "done"} THEN 1 ELSE 0
        /\ \A p \in DOMAIN ops :
              ops[p].kind = "image" => \E r \in resets : r < p
        /\ (\E f \in disk : f.run = "new") => resets # {}
        /\ resets # {} => \A f \in disk : f.run = "new"

C15_Witness ==
    /\ stage = "done"
    /\ Len(OpsOf("reset")) = 1
    /\ OpsOf("reset")[1].target = {OldFile}
    /\ Len(links) = 2
    /\ Cardinality(disk) >= 4
    /\ \A f \in disk : f.run = "new" /\ f.complete

\* C16: savePostDataToDisk signals completion for a record only after its
\* image stream has closed and its text was written, so no artifact of
\* record k+1 exists before the image of record k is complete on disk.
C16_CompletionAfterImageClosed ==
    stage \in {"saving", "done"} =>
        \A k \in DOMAIN frames :
            k <= Len(links) =>
                /\ frames[k].fetch \in {"resolved", "done"} =>
                      /\ File("new", links[k].id, "txt", TRUE) \in disk
                      /\ File("new", links[k].id, "jpg", TRUE) \in disk
                      /\ Pending("image", k) = {}
                /\ (k > 1 /\ \E f \in disk : f.id = links[k].id) =>
                      File("new", links[k - 1].id, "jpg", TRUE) \in disk

C16_Witness ==
    /\ stage = "saving"
    /\ Len(frames) = 2
    /\ frames[1].fetch = "done"
    /\ frames[2].fetch = "pending"
    /\ Pending("image", 2) # {}
    /\ File("new", links[1].id, "jpg", TRUE) \in disk
    /\ File("new", links[2].id, "jpg", FALSE) \in disk

\* C17: output order matches crawl order at every stage: the listing pages
\* are requested in increasing offset order, the post pages in the order
\* their links appear on the listing pages (the n-th link seen is
\* PostLink(n)), the records are persisted in that order; no post page is
\* requested before every listing page was fetched and no record is
\* persisted before every record was assembled.
C17_CrawlOrderAtEveryStage ==
    LET listing == OpsOf("listing")
        post == OpsOf("post")
        image == OpsOf("image")
    IN  /\ \A i \in DOMAIN listing :
              listing[i].target = IF i = 1 THEN mosaicLink
                                  ELSE OffsetLink(30 * (i - 1))
        /\ \A i \in DOMAIN post : post[i].target = PostLink(i)
        /\ \A i \in DOMAIN image : image[i].target = i
        /\ \A p, q \in DOMAIN ops :
              /\ (ops[p].kind = "post" /\ ops[q].kind = "listing") =>
                    (q < p /\ ops[q].answer # "pending")
              /\ (ops[p].kind = "image" /\ ops[q].kind \in {"post", "comments"}) =>
                    (q < p /\ ops[q].answer # "pending")
        /\ post # <<>> => Len(listing) = Len(plan.links)
        /\ image # <<>> => Len(links) = Len(post)

C17_Witness ==
    /\ stage = "done"
    /\ Len(OpsOf("listing")) = 2
    /\ Len(OpsOf("post")) = 2
    /\ Len(OpsOf("image")) = 2
    /\ OpsOf("listing")[1].answer = "ok"
    /\ OpsOf("listing")[2].answer = "ok"
    /\ ops[3].kind = "listing"
    /\ ops[4].kind = "post"

\* C20: across the whole pipeline at most one asynchronous operation
\* (listing, post, comment-batch request or image stream) is in flight in
\* any reachable state.
C20_AtMostOneInFlight == Cardinality(InFlightOps) <= 1

C20_Witness ==
    /\ stage = "posts"
    /\ data.k = 2
    /\ Len(requests) = 2
    /\ Pending("comments", 2) # {}
    /\ Cardinality(InFlightOps) = 1
    /\ Len(ops) >= 7

\* The kinds of operation that fetch something of the fotolog
FetchKinds == {"mosaic", "listing", "post", "comments"}

\* C23: the output directory is reset only inside savePostsDataToDisk,
\* after every listing page, post page and comment batch of the run was
\* fetched: every fetch precedes the reset and has come back by then, and
\* the directory's contents change in no step before the reset, so a run
\* that aborts or stalls in the listing, post or comment stages leaves the
\* pre-existing output directory as it was.
C23_ResetOnlyAfterAllFetches ==
    /\ [](\A r \in DOMAIN ops :
              ops[r].kind = "reset" =>
                  \A p \in DOMAIN ops :
                      ops[p].kind \in FetchKinds =>
                          (p < r /\ ops[p].answer # "pending"))
    /\ [][disk' # disk =>
              /\ stage' \in {"saving", "done"}
              /\ \E r \in DOMAIN ops' : ops'[r].kind = "reset"]_vars

C23_Witness ==
    /\ stage = "posts"
    /\ proc = "crashed"
    /\ disk = {OldFile}
    /\ Len(OpsOf("post")) = 2
    /\ Len(OpsOf("comments")) >= 1
    /\ ops[Len(ops)].answer = "non-2xx"

\* Every response so far was a successful, well-formed one: the first
\* page carries the pagination of a user with some number of pages, and
\* every request answered so far got a 2xx page with the expected markup
\* (the comment stream of a post ends with an empty batch by RunResponses).
WellFormed ==
    /\ anchors \in {RunAnchors(p) : p \in 1..MaxPages}
    /\ \A p \in DOMAIN ops : ops[p].answer \in {"pending", "ok"}

\* C21: a run in which every request receives a successful well-formed
\* response eventually reaches its completed state (every record persisted,
\* the end of the chain reached), for every number of listing pages and of
\* posts.
C21_RunCompletes == <>(Completed \/ ~WellFormed)

=============================================================================
